---- MODULE Spec2Model ----
(***************************************************************************)
(* Model of the fragment-merging engine of fafbseg (src/fafbseg/merge.py): *)
(* collapse_nodes (pairwise mode) and collapse_nodes2 (asymmetric mode).   *)
(*                                                                         *)
(* Geometry.  Node positions lie on a one-dimensional grid: a node with   *)
(* column x = c sits at c * GridStep nanometres.  Distances are compared  *)
(* through their squares, which orders them as the Euclidean distances    *)
(* are ordered.  GridStep is chosen so that no distance on the grid       *)
(* equals a limit exactly.                                                 *)
(***************************************************************************)
EXTENDS Integers, Sequences, FiniteSets, TLC

\* ---------------------------------------------------------------- bounds
MaxNodesPair == 4
MaxNodesAsym == 5
MaxNodesDefect == 3
MaxNodesMerge == 4
MaxFrags == 3
MaxCoord == 2
MaxLimit == 1
MaxChainCoord == 4
MaxMarkers == 2
MaxNodesBatch == 5
MaxNodesSibling == 2
MaxBatch == 2
MaxUploadNodes == 2
MaxNodesRadii == 2
SmallRadius == 10
LargeRadius == 20
MaxSynapses == 3
FarSite == 4
GridStep == 800

\* ------------------------------------------------------- program constants
\* limit *= 1000 : micrometres to nanometres
NmPerMicron == 1000
\* the null parent_id of a root row
NoParent == 0
\* base_neuron=None
None == 0
\* the distance between the identifiers of a donor node and of its upload
IdShift == 100
\* dist_thresh=2000, in nanometres
DistThresh == 2000

VARIABLES mode, x, limit, priority_nodes, base_neuron,
          pc, err, close_pairs, collapse_into, new_edges, E, G, tree, union,
          connectors, tags, columns,
          batch, ix, overlap_cnf, base_neurons,
          frags, to_stitch, cond1b, cond2b, to_gen, tn_map, calls, ret,
          min_upload_nodes,
          source, target, skip_existing, new_radii,
          syn, this_pre, this_post

\* the state of a merge_neuron call around the merge of one skeleton
mergeVars == <<batch, ix, overlap_cnf, base_neurons,
               frags, to_stitch, cond1b, cond2b, to_gen, tn_map, calls, ret,
               min_upload_nodes>>

\* the state of an update_node_radii call
radiiVars == <<source, target, skip_existing, new_radii>>

\* the state of a get_neuron_synapses call
synVars == <<syn, this_pre, this_post>>

others == <<mergeVars, radiiVars, synVars>>

vars == <<mode, x, limit, priority_nodes, base_neuron,
          pc, err, close_pairs, collapse_into, new_edges, E, G, tree, union,
          connectors, tags, columns, others>>

\* no merge_neuron call is under way
NoMerge ==
    /\ batch = << >>
    /\ ix = 0
    /\ overlap_cnf = << >>
    /\ base_neurons = << >>
    /\ frags = << >>
    /\ to_stitch = {}
    /\ cond1b = << >>
    /\ cond2b = << >>
    /\ to_gen = << >>
    /\ tn_map = << >>
    /\ calls = << >>
    /\ ret = "running"
    /\ min_upload_nodes = 1

\* no update_node_radii call is under way
NoRadii ==
    /\ source = << >>
    /\ target = << >>
    /\ skip_existing = FALSE
    /\ new_radii = << >>

\* no get_neuron_synapses call is under way
NoSynapses ==
    /\ syn = << >>
    /\ this_pre = << >>
    /\ this_post = << >>

\* ------------------------------------------------------------ the inputs
\* squared distance in nm^2 of two grid positions
D2(a, b) == ((a - b) * GridStep) * ((a - b) * GridStep)

Coords == 0..MaxCoord

\* o[i] is the fragment of the i-th node: fragments are numbered 1, 2, ...
Owners(n) ==
    {o \in [1..n -> 1..MaxFrags] :
        /\ o[1] = 1
        /\ \A i \in 2..n : o[i] \in {o[i-1], o[i-1] + 1}}

\* p[i] is the parent of the i-th node: the first node of a fragment is its
\* root, every other node hangs on an earlier node of the same fragment
Parents(n, o) ==
    {p \in [1..n -> 0..n] :
        \A i \in 1..n :
            IF i = 1 \/ o[i] # o[i-1]
            THEN p[i] = NoParent
            ELSE p[i] \in 1..(i-1) /\ o[p[i]] = o[i]}

\* the node table rows of the nodes in the set S, in table order
Rows(n, p, c, S) ==
    LET idx == SelectSeq([i \in 1..n |-> i], LAMBDA i : i \in S)
    IN  [r \in DOMAIN idx |->
            [treenode_id |-> idx[r], parent_id |-> p[idx[r]], x |-> c[idx[r]]]]

\* a CatmaidNeuron: skeleton id, node table (rows in table order), connector
\* table (rows connector_id, treenode_id) and tags (label -> nodes), here a
\* neuron without connectors and tags
Neuron(skid, rows) ==
    [skeleton_id |-> skid, is_neuron |-> TRUE, nodes |-> rows,
     connectors |-> << >>, tags |-> << >>]

\* the list given to collapse_nodes: one neuron per fragment
PairInput(n, o, p, c) ==
    [j \in 1..o[n] |-> Neuron(j, Rows(n, p, c, {i \in 1..n : o[i] = j}))]

\* the list B + A of collapse_nodes2: acceptors are the first nB fragments,
\* the donor A is the remaining fragments under one skeleton id
AsymInput(n, o, p, c, nB) ==
    [j \in 1..(nB + 1) |->
        IF j <= nB
        THEN Neuron(j, Rows(n, p, c, {i \in 1..n : o[i] = j}))
        ELSE Neuron(j, Rows(n, p, c, {i \in 1..n : o[i] > nB}))]

\* inputs that the validation must reject
Defects == {"dup_skid", "dup_node", "bad_type"}

LastRow(nr) == nr.nodes[Len(nr.nodes)]

Spoil(xs, d) ==
    LET k == Len(xs)
        last == xs[k]
    IN  CASE d = "dup_skid" ->
                [xs EXCEPT ![k].skeleton_id = xs[1].skeleton_id]
          [] d = "dup_node" ->
                [xs EXCEPT ![k].nodes[Len(last.nodes)].treenode_id =
                                xs[1].nodes[1].treenode_id]
          [] d = "bad_type" ->
                [xs EXCEPT ![k].is_neuron = FALSE]
          [] OTHER -> xs

\* the columns of a node table as the caller hands it over
NodeColumns == {"treenode_id", "parent_id", "x"}

StartAt(stage, m, xs, lim, prio, base) ==
    /\ mode = m
    /\ x = xs
    /\ limit = lim
    /\ priority_nodes = prio
    /\ base_neuron = base
    /\ pc = stage
    /\ err = "none"
    /\ close_pairs = << >>
    /\ collapse_into = << >>
    /\ new_edges = << >>
    /\ E = {}
    /\ G = {}
    /\ tree = {}
    /\ union = {}
    /\ connectors = << >>
    /\ tags = << >>
    /\ columns = [j \in DOMAIN xs |-> NodeColumns]
    /\ NoMerge
    /\ NoRadii
    /\ NoSynapses

\* a direct call of collapse_nodes or collapse_nodes2
Start(m, xs, lim, prio, base) == StartAt("start", m, xs, lim, prio, base)

InitPair ==
    \E n \in 1..MaxNodesPair :
    \E o \in Owners(n) :
    \E p \in Parents(n, o) :
    \E c \in [1..n -> Coords] :
    \E lim \in 1..MaxLimit :
        LET xs == PairInput(n, o, p, c) IN
        \/ /\ o[n] >= 2
           /\ \E prio \in SUBSET (1..n) : Start("pairwise", xs, lim, prio, None)
        \/ /\ o[n] >= 2
           /\ \E b \in 1..o[n] : Start("pairwise", xs, lim, {}, b)
        \/ /\ o[n] = 1
           /\ n <= MaxNodesDefect
           /\ Start("pairwise", xs, lim, {}, None)
        \/ /\ o[n] >= 2
           /\ n <= MaxNodesDefect
           /\ \E d \in Defects : Start("pairwise", Spoil(xs, d), lim, {}, None)

InitAsym ==
    \E n \in 2..MaxNodesAsym :
    \E o \in Owners(n) :
    \E p \in Parents(n, o) :
    \E c \in [1..n -> Coords] :
    \E lim \in 1..MaxLimit :
    \E nB \in 1..(o[n] - 1) :
        LET xs == AsymInput(n, o, p, c, nB) IN
        \/ \E b \in 0..nB : Start("asym", xs, lim, {}, b)
        \/ /\ n <= MaxNodesDefect
           /\ \E d \in Defects : Start("asym", Spoil(xs, d), lim, {}, 1)

\* the nodes with exactly one neighbour in their fragment
Endpoints(n, p) ==
    {i \in 1..n : Cardinality({k \in 1..n : p[k] = i \/ (k = i /\ p[k] # NoParent)}) = 1}

\* two chains of three nodes each, of which exactly one pair of nodes, an
\* endpoint of each, is within the limit
Chains ==
    LET o == [i \in 1..6 |-> IF i <= 3 THEN 1 ELSE 2] IN
    {pc2 \in Parents(6, o) \X [1..6 -> 0..MaxChainCoord] :
        LET near == {ab \in (1..3) \X (4..6) :
                        D2(pc2[2][ab[1]], pc2[2][ab[2]]) <= NmPerMicron * NmPerMicron}
        IN  /\ Cardinality(near) = 1
            /\ \A ab \in near : {ab[1], ab[2]} \subseteq Endpoints(6, pc2[1])}

InitChains ==
    \E ch \in Chains :
        LET o  == [i \in 1..6 |-> IF i <= 3 THEN 1 ELSE 2]
            xs == PairInput(6, o, ch[1], ch[2])
        IN  \/ Start("pairwise", xs, 1, {}, None)
            \/ \E b \in 0..1 : Start("asym", xs, 1, {}, b)

\* the to-be-merged skeleton xs[Len(xs)] with the ids of the rows in DOMAIN h
\* replaced by the ids h[r] (of nodes of the overlapping fragments); its
\* parent links follow
Collide(xs, h) ==
    LET k    == Len(xs)
        rows == xs[k].nodes
        new(id) == IF \E r \in DOMAIN h : rows[r].treenode_id = id
                   THEN h[CHOOSE r \in DOMAIN h : rows[r].treenode_id = id]
                   ELSE id
    IN  [xs EXCEPT ![k].nodes =
            [r \in DOMAIN rows |->
                [rows[r] EXCEPT !.treenode_id = new(rows[r].treenode_id),
                                !.parent_id = new(rows[r].parent_id)]]]

\* merge_neuron at line 383: the skeleton n to merge (last) after its
\* overlapping fragments ol and the confirmed base, with or without a skeleton
\* id or node ids shared between n and ol
InitMerge ==
    \E n \in 2..MaxNodesMerge :
    \E o \in Owners(n) :
    \E p \in Parents(n, o) :
    \E c \in [1..n -> Coords] :
    \E lim \in 1..MaxLimit :
    \E nB \in 1..(o[n] - 1) :
        LET xs   == AsymInput(n, o, p, c, nB)
            olid == {i \in 1..n : o[i] <= nB}
            nrow == DOMAIN xs[nB + 1].nodes
        IN  \E S \in SUBSET nrow :
            \E h \in [S -> olid] :
            \E d \in {"none", "dup_skid"} :
            \E b \in 1..nB :
                /\ \A r, s \in S : h[r] = h[s] => r = s
                /\ StartAt("merge", "asym", Spoil(Collide(xs, h), d), lim, {}, b)

\* ------------------------------------------ inputs with markers and tags
ConnectorIds == 1..MaxMarkers

Labels == {"soma", "ends"}

\* the elements of a set of pairs <<node, value>> as a sequence, by node and
\* value
RECURSIVE InOrder(_)
InOrder(S) ==
    IF S = {} THEN << >>
    ELSE LET m == CHOOSE a \in S : \A b \in S :
                    a[1] < b[1] \/ (a[1] = b[1] /\ a[2] <= b[2])
         IN  <<m>> \o InOrder(S \ {m})

\* the neurons xs with the connectors att (pairs <<node, connector id>>) and
\* the tags tg (pairs <<node, label index>>) on their nodes
Mark(xs, att, tg) ==
    [j \in DOMAIN xs |->
        LET ids  == {xs[j].nodes[r].treenode_id : r \in DOMAIN xs[j].nodes}
            mine == InOrder({a \in att : a[1] \in ids})
            labs == {k \in Labels : \E a \in tg : a[1] \in ids /\ a[2] = k}
        IN  [xs[j] EXCEPT
                !.connectors = [r \in DOMAIN mine |->
                                    [connector_id |-> mine[r][2], treenode_id |-> mine[r][1]]],
                !.tags = [k \in labs |-> {a[1] : a \in {b \in tg : b[1] \in ids /\ b[2] = k}}]]]

\* at most MaxMarkers elements of S
Few(S) == {T \in SUBSET S : Cardinality(T) <= MaxMarkers}

\* neurons with connectors or with tags, given to collapse_nodes, to
\* collapse_nodes2 and to merge_neuron
InitMarked ==
    \E n \in 2..MaxNodesDefect :
    \E o \in Owners(n) :
    \E p \in Parents(n, o) :
    \E c \in [1..n -> {0, MaxCoord}] :
    \E att \in Few((1..n) \X ConnectorIds) :
    \E tg \in Few((1..n) \X Labels) :
        /\ att = {} \/ tg = {}
        /\ o[n] >= 2
        /\ \/ Start("pairwise", Mark(PairInput(n, o, p, c), att, tg), 1, {}, None)
           \/ \E nB \in 1..(o[n] - 1) :
                 Start("asym", Mark(AsymInput(n, o, p, c, nB), att, tg), 1, {}, 1)
           \/ \E nB \in 1..(o[n] - 1) : \E r \in {0, 1} :
                 LET xs == AsymInput(n, o, p, c, nB)
                     h  == IF r = 0 THEN << >> ELSE <<1>>
                 IN  StartAt("merge", "asym", Mark(Collide(xs, h), att, tg), 1, {}, 1)

Init == InitPair \/ InitAsym \/ InitChains \/ InitMerge

\* ------------------------------------------------------------ validation
Skids == [j \in DOMAIN x |-> x[j].skeleton_id]

\* a duplicate test that finds nothing
NeverDuplicates(s) == FALSE

\* len(skids) > len(np.unique(skids)); any(treenode_id.duplicated())
HasDuplicates(s) == \E i, j \in DOMAIN s : i < j /\ s[i] = s[j]

Fail(e) ==
    /\ pc' = "failed"
    /\ err' = e
    /\ UNCHANGED <<mode, x, limit, priority_nodes, base_neuron,
                   close_pairs, collapse_into, new_edges, E, G, tree, union, connectors, tags,
                   columns, others>>

Goto(stage) ==
    /\ pc' = stage
    /\ UNCHANGED <<mode, x, limit, priority_nodes, base_neuron, err, others>>

\* a validation that lets every input pass
ValidateNothing ==
    /\ mode = "pairwise"
    /\ pc = "start"
    /\ Goto("validated")
    /\ UNCHANGED <<close_pairs, collapse_into, new_edges, E, G, tree, union, connectors, tags, columns>>

\* collapse_nodes: on copies of the neurons (line 632), duplicate skeleton
\* ids, then the type, then the count
ValidatePair ==
    /\ mode = "pairwise"
    /\ pc = "start"
    /\ IF HasDuplicates(Skids) THEN Fail("duplicate_skeleton_ids")
       ELSE IF \E j \in DOMAIN x : ~x[j].is_neuron THEN Fail("type_error")
       ELSE IF Len(x) < 2 THEN Fail("too_few_neurons")
       ELSE Goto("validated") /\ UNCHANGED <<close_pairs, collapse_into, new_edges, E, G, tree, union, connectors, tags, columns>>

\* n.nodes['origin_skeletons'] = n.skeleton_id, on the neurons of the caller
WithOrigin == [j \in DOMAIN columns |-> columns[j] \cup {"origin_skeletons"}]

\* collapse_nodes2: the types of A and B, then duplicate skeleton ids, then
\* the origin column on every node table
ValidateAsym ==
    /\ mode = "asym"
    /\ pc = "start"
    /\ IF \E j \in DOMAIN x : ~x[j].is_neuron THEN Fail("type_error")
       ELSE IF HasDuplicates(Skids) THEN Fail("duplicate_skeleton_ids")
       ELSE /\ Goto("validated")
            /\ columns' = WithOrigin
            /\ UNCHANGED <<close_pairs, collapse_into, new_edges, E, G, tree, union, connectors, tags>>

\* ------------------------------------------------------------ weak union
RECURSIVE Concat(_)
Concat(ss) == IF ss = << >> THEN << >> ELSE Head(ss) \o Concat(Tail(ss))

\* the node table of neuron j with the skeleton_id column of a list's table
Table(j) ==
    [r \in DOMAIN x[j].nodes |->
        [treenode_id |-> x[j].nodes[r].treenode_id,
         parent_id   |-> x[j].nodes[r].parent_id,
         x           |-> x[j].nodes[r].x,
         skeleton_id |-> x[j].skeleton_id]]

\* stitch_neurons(..., method='NONE'): the node tables combined, no new edge
union_simple == Concat([j \in DOMAIN x |-> Table(j)])

TreenodeIds(rows) == [r \in DOMAIN rows |-> rows[r].treenode_id]

IdSet(rows) == {rows[r].treenode_id : r \in DOMAIN rows}

AllIds == IdSet(union_simple)

RowOf(id) == union_simple[CHOOSE r \in DOMAIN union_simple : union_simple[r].treenode_id = id]

\* the neurons of collapse_nodes2: acceptors B (all but the last), donor A
B == SubSeq(x, 1, Len(x) - 1)

A == x[Len(x)]

BRows == Concat([j \in 1..(Len(x) - 1) |-> x[j].nodes])

\* stitch_neurons(method='NONE') and the check for duplicate node ids
WeakUnion ==
    /\ pc = "validated"
    /\ IF HasDuplicates(TreenodeIds(union_simple)) THEN Fail("duplicate_node_ids")
       ELSE Goto("unioned") /\ UNCHANGED <<close_pairs, collapse_into, new_edges, E, G, tree, union, connectors, tags, columns>>

\* ------------------------------------- merge_neuron: shared identifiers
Max(S) == CHOOSE m \in S : \A k \in S : k <= m

\* n.skeleton_id += 'a': an id that no input skeleton has
WithSuffixA(skid) == skid + MaxFrags + 1

\* the rows of n whose node id is an id of the overlapping fragments
Duplicated == SelectSeq(A.nodes, LAMBDA row : row.treenode_id \in IdSet(BRows))

\* no node is given a new id
IdMapEmpty == << >>

\* id_map: the duplicated ids, in table order, onto max_ix, max_ix + 1, ...
IdMap ==
    LET max_ix == Max(IdSet(BRows) \cup IdSet(A.nodes)) + 1
    IN  [id \in {Duplicated[k].treenode_id : k \in DOMAIN Duplicated} |->
            max_ix + (CHOOSE k \in DOMAIN Duplicated : Duplicated[k].treenode_id = id) - 1]

Renumbered(id) == IF id \in DOMAIN IdMap THEN IdMap[id] ELSE id

\* lines 385-423: a shared skeleton id is renamed, shared node ids are
\* replaced in n, every node table gets its origin column, and the merge goes
\* on to collapse_nodes2
FixCollisions ==
    /\ pc = "merge"
    /\ x' = [x EXCEPT ![Len(x)] =
                [skeleton_id |-> IF \E j \in DOMAIN B : B[j].skeleton_id = A.skeleton_id
                                 THEN WithSuffixA(A.skeleton_id)
                                 ELSE A.skeleton_id,
                 is_neuron   |-> A.is_neuron,
                 connectors  |-> [r \in DOMAIN A.connectors |->
                                    [A.connectors[r] EXCEPT
                                        !.treenode_id = Renumbered(A.connectors[r].treenode_id)]],
                 tags        |-> A.tags,
                 nodes       |-> [r \in DOMAIN A.nodes |->
                                    [A.nodes[r] EXCEPT
                                        !.treenode_id = Renumbered(A.nodes[r].treenode_id),
                                        !.parent_id = Renumbered(A.nodes[r].parent_id)]]]]
    /\ pc' = "start"
    /\ columns' = WithOrigin
    /\ UNCHANGED <<mode, limit, priority_nodes, base_neuron, err,
                   close_pairs, collapse_into, new_edges, E, G, tree, union, connectors, tags,
                   others>>

\* ------------------------------------------------------------- geometry
\* the distance threshold in nanometres
LimitNm == limit * NmPerMicron

WithinAnyDistance(d2) == TRUE

\* nn_dist <= limit
Within(d2) == d2 <= LimitNm * LimitNm

\* tree.query(coords, k=1, distance_upper_bound=limit) for one query point:
\* the ids of the indexed rows that are nearest and within the limit (several
\* on a tie, of which the index returns one; none when nothing is in range)
Nearest(rows, q) ==
    {rows[r].treenode_id : r \in
        {r \in DOMAIN rows :
            /\ Within(D2(rows[r].x, q))
            /\ \A s \in DOMAIN rows : D2(rows[r].x, q) <= D2(rows[s].x, q)}}

\* ------------------------------------------------ collapse, pairwise mode
\* itertools.combinations(x, 2), each pair followed by the rows of its
\* second neuron in table order: <<i, j, r>> queries row r of x[j] in x[i]
Queries ==
    Concat([i \in 1..Len(x) |->
        Concat([jj \in 1..(Len(x) - i) |->
            [r \in DOMAIN x[i + jj].nodes |-> <<i, i + jj, r>>]])])

\* zip(clps_left, clps_right, clps_dist) over all pairs of neurons
RECURSIVE ClosePairs(_)
ClosePairs(qs) ==
    IF qs = << >> THEN {<< >>}
    ELSE LET q    == Head(qs)
             row  == x[q[2]].nodes[q[3]]
             cand == Nearest(x[q[1]].nodes, row.x)
         IN  IF cand = {} THEN ClosePairs(Tail(qs))
             ELSE {<<[n1 |-> c, n2 |-> row.treenode_id,
                      d |-> D2(RowOf(c).x, row.x)]>> \o rest :
                        c \in cand, rest \in ClosePairs(Tail(qs))}

Put(f, k, v) == [i \in (DOMAIN f) \cup {k} |-> IF i = k THEN v ELSE f[i]]

\* the loop body with the priority test on the wrong node
RECURSIVE ResolvePriorityLoses(_, _, _)
ResolvePriorityLoses(ps, ci, ne) ==
    IF ps = << >> THEN [collapse_into |-> ci, new_edges |-> ne]
    ELSE LET p == Head(ps) IN
         IF p.n2 \in priority_nodes
         THEN IF p.n1 \in priority_nodes
              THEN ResolvePriorityLoses(Tail(ps), ci, Append(ne, <<p.n1, p.n2, p.d>>))
              ELSE ResolvePriorityLoses(Tail(ps), Put(ci, p.n2, p.n1), ne)
         ELSE ResolvePriorityLoses(Tail(ps), Put(ci, p.n1, p.n2), ne)

\* the loop body: which node of a close pair collapses into which
RECURSIVE Resolve(_, _, _)
Resolve(ps, ci, ne) ==
    IF ps = << >> THEN [collapse_into |-> ci, new_edges |-> ne]
    ELSE LET p == Head(ps) IN
         IF p.n1 \in priority_nodes
         THEN IF p.n2 \in priority_nodes
              THEN Resolve(Tail(ps), ci, Append(ne, <<p.n1, p.n2, p.d>>))
              ELSE Resolve(Tail(ps), Put(ci, p.n2, p.n1), ne)
         ELSE Resolve(Tail(ps), Put(ci, p.n1, p.n2), ne)

CollapsePair ==
    /\ mode = "pairwise"
    /\ pc = "unioned"
    /\ \E cp \in ClosePairs(Queries) :
          LET res == Resolve(cp, << >>, << >>) IN
          /\ close_pairs' = cp
          /\ collapse_into' = res.collapse_into
          /\ new_edges' = res.new_edges
    /\ Goto("collapsed")
    /\ UNCHANGED <<E, G, tree, union, connectors, tags, columns>>

\* ---------------------------------------------- collapse, asymmetric mode
\* clps_map = {n1: n2 for n1, n2 in zip(collapsed, clps_into)}
ClpsMaps ==
    LET rows == A.nodes
        keys == {r \in DOMAIN rows : Nearest(BRows, rows[r].x) # {}}
        ids  == {rows[r].treenode_id : r \in keys}
    IN  {f \in [ids -> IdSet(BRows)] :
            \A r \in keys : f[rows[r].treenode_id] \in Nearest(BRows, rows[r].x)}

CollapseAsym ==
    /\ mode = "asym"
    /\ pc = "unioned"
    /\ \E f \in ClpsMaps : collapse_into' = f
    /\ Goto("collapsed")
    /\ UNCHANGED <<close_pairs, new_edges, E, G, tree, union, connectors, tags, columns>>

\* ------------------------------------------------------ edge reconciling
\* float("inf"): larger than every edge length of the grid
Inf == D2(0, MaxCoord + MaxChainCoord + 1) + 1

Get(f, k) == IF k \in DOMAIN f THEN f[k] ELSE k

\* union_simple.graph: one edge child -> parent per row with a parent,
\* weighted by its length
GraphEdges ==
    {[source |-> union_simple[r].treenode_id,
      target |-> union_simple[r].parent_id,
      weight |-> D2(union_simple[r].x, RowOf(union_simple[r].parent_id).x)] :
        r \in {r \in DOMAIN union_simple : union_simple[r].parent_id # NoParent}}

\* the new edges never reach the graph
PriorityEdgesDropped == {}

\* G.add_weighted_edges_from(new_edges)
PriorityEdges ==
    {[source |-> new_edges[i][1], target |-> new_edges[i][2], weight |-> new_edges[i][3]] :
        i \in DOMAIN new_edges}

\* the weight column of collapse_nodes after line 703
PairWeight(ed) ==
    IF ed.source \in DOMAIN collapse_into \/ ed.target \in DOMAIN collapse_into
    THEN Inf ELSE ed.weight

IsNewEverywhere(ed) == 1

\* the is_new column of collapse_nodes2
IsNew(ed) ==
    IF ed.source \in IdSet(BRows) \/ ed.target \in IdSet(BRows) THEN 0 ELSE 1

\* E['target'] = E.target.map(...); E['source'] = E.source.map(...)
Rewrite(ed, w) ==
    [source |-> Get(collapse_into, ed.source),
     target |-> Get(collapse_into, ed.target),
     weight |-> w]

\* E = E[E.source != E.target]
NoSelfLoops(rows) == {ed \in rows : ed.source # ed.target}

Undirected(rows) == {[e |-> {ed.source, ed.target}, weight |-> ed.weight] : ed \in rows}

Pairs(g) == {ed.e : ed \in g}

\* nx.from_pandas_edgelist(E, edge_attr='weight'): one edge per unordered
\* pair; of several rows for the same pair the row added last sets the
\* weight, and the order of the rows is the graph library's
GraphsOf(rows) ==
    {g \in SUBSET Undirected(rows) :
        /\ Pairs(g) = Pairs(Undirected(rows))
        /\ \A e1, e2 \in g : e1.e = e2.e => e1 = e2}

\* the rows sorted the other way round: of the rows of one unordered pair
\* one of the highest is_new is kept
KeepLast(rows) ==
    {ed \in Undirected(rows) :
        \A other \in Undirected(rows) : other.e = ed.e => ed.weight >= other.weight}

\* sort_values('is_new') and drop_duplicates(['edge'], keep='first'): of the
\* rows of one unordered pair the first of the lowest is_new is kept
KeepFirst(rows) ==
    {ed \in Undirected(rows) :
        \A other \in Undirected(rows) : other.e = ed.e => ed.weight <= other.weight}

ReconcilePair ==
    /\ mode = "pairwise"
    /\ pc = "collapsed"
    /\ LET rows == NoSelfLoops({Rewrite(ed, PairWeight(ed)) :
                                    ed \in GraphEdges \cup PriorityEdges})
       IN  /\ E' = rows
           /\ G' \in GraphsOf(rows)
    /\ Goto("reconciled")
    /\ UNCHANGED <<close_pairs, collapse_into, new_edges, tree, union, connectors, tags, columns>>

ReconcileAsym ==
    /\ mode = "asym"
    /\ pc = "collapsed"
    /\ LET rows == NoSelfLoops({Rewrite(ed, IsNew(ed)) : ed \in GraphEdges})
       IN  /\ E' = rows
           /\ G' = KeepFirst(rows)
    /\ Goto("reconciled")
    /\ UNCHANGED <<close_pairs, collapse_into, new_edges, tree, union, connectors, tags, columns>>

\* --------------------------------------------------- connectivity repair
Nodes(g) == UNION Pairs(g)

\* the nodes reachable from the set S along the edges of g
RECURSIVE Reach(_, _)
Reach(S, g) ==
    LET S2 == S \cup UNION {ed.e : ed \in {d \in g : d.e \cap S # {}}}
    IN  IF S2 = S THEN S ELSE Reach(S2, g)

\* nx.connected_components
Components(V, g) == {Reach({v}, g) : v \in V}

ConnectedAnyway(g) == TRUE

\* nx.is_connected
IsConnected(g) == Cardinality(Components(Nodes(g), g)) = 1

RECURSIVE TotalWeight(_)
TotalWeight(t) ==
    IF t = {} THEN 0
    ELSE LET ed == CHOOSE d \in t : TRUE IN ed.weight + TotalWeight(t \ {ed})

SpanningForests(g) ==
    {t \in SUBSET g :
        /\ Cardinality(t) = Cardinality(Nodes(g)) - Cardinality(Components(Nodes(g), g))
        /\ Components(Nodes(g), t) = Components(Nodes(g), g)}

\* nx.minimum_spanning_tree, component by component: a spanning forest of
\* least weight (Kruskal's result, whichever way it breaks ties)
MinimumSpanningTrees(g) ==
    LET F == SpanningForests(g)
    IN  {t \in F : \A u \in F : TotalWeight(t) <= TotalWeight(u)}

PosOf(id) == RowOf(id).x

StitchNothing(V, t) == {t}

\* pymaid.stitch_neurons(*fragments, method='ALL'): the fragments are joined
\* by new edges between their nearest nodes until one tree is left
RECURSIVE Stitch(_, _)
Stitch(V, t) ==
    LET comps == Components(V, t)
        cross == {p \in SUBSET V :
                    /\ Cardinality(p) = 2
                    /\ \A c \in comps : ~(p \subseteq c)}
        len(p) == LET u == CHOOSE u \in p : TRUE
                      v == CHOOSE v \in p : v # u
                  IN  D2(PosOf(u), PosOf(v))
        best  == {p \in cross : \A q \in cross : len(p) <= len(q)}
    IN  IF Cardinality(comps) <= 1 THEN {t}
        ELSE UNION {Stitch(V, t \cup {[e |-> p, weight |-> len(p)]}) : p \in best}

\* collapse_nodes: the connectivity check and the spanning tree
RepairPair ==
    /\ mode = "pairwise"
    /\ pc = "reconciled"
    /\ IF G = {} THEN Fail("null_graph")
       ELSE IF ~IsConnected(G) THEN Fail("still_fragmented")
       ELSE /\ tree' \in MinimumSpanningTrees(G)
            /\ Goto("repaired")
            /\ UNCHANGED <<close_pairs, collapse_into, new_edges, E, G, union, connectors, tags, columns>>

\* collapse_nodes2: a spanning tree per component, then the stitching; with
\* no edge left there is no fragment to return and the call fails
RepairAsym ==
    /\ mode = "asym"
    /\ pc = "reconciled"
    /\ IF G = {} THEN Fail("empty_edge_list")
       ELSE IF base_neuron = None THEN Fail("attribute_error")
       ELSE /\ \E f \in MinimumSpanningTrees(G) : tree' \in Stitch(Nodes(G), f)
            /\ Goto("repaired")
            /\ UNCHANGED <<close_pairs, collapse_into, new_edges, E, G, union, connectors, tags, columns>>

\* ------------------------------------------------------------- provenance
Neighbours(v, t) == {u \in Nodes(t) : \E ed \in t : ed.e = {u, v}}

\* the parent of v in the tree t rooted at root: its neighbour towards root
ParentOf(v, root, t) ==
    LET towards == {u \in Neighbours(v, t) :
                        root \in Reach({u}, {ed \in t : ed.e # {u, v}})}
    IN  IF v = root \/ towards = {} THEN NoParent
        ELSE CHOOSE u \in towards : TRUE

\* the node table of the neuron made of the tree t with the given root
NodeTable(t, root) ==
    {[treenode_id |-> v, parent_id |-> ParentOf(v, root, t)] : v \in Nodes(t)}

\* base_neuron.root[0]
RootOf(nr) ==
    nr.nodes[CHOOSE r \in DOMAIN nr.nodes :
                /\ nr.nodes[r].parent_id = NoParent
                /\ \A s \in 1..(r - 1) : nr.nodes[s].parent_id # NoParent].treenode_id

\* x.connectors, union_simple.connectors: the connector tables of all
\* neurons, one after the other
AllConnectors == Concat([j \in DOMAIN x |-> x[j].connectors])

\* drop_duplicates(subset='connector_id'): the first row of every id
DropDuplicates(rows) ==
    SelectSeq([r \in DOMAIN rows |-> [row |-> rows[r], at |-> r]],
              LAMBDA e : \A s \in 1..(e.at - 1) :
                            rows[s].connector_id # e.row.connector_id)

\* union.connectors: the first row of every connector id, its treenode_id
\* mapped through the collapse map
Connectors ==
    LET kept == DropDuplicates(AllConnectors)
    IN  [r \in DOMAIN kept |->
            [connector_id |-> kept[r].row.connector_id,
             treenode_id  |-> Get(collapse_into, kept[r].row.treenode_id)]]

\* the labels of the tags of all neurons
AllLabels == UNION {DOMAIN x[j].tags : j \in DOMAIN x}

\* the nodes that carry label k in the inputs
Tagged(k) == UNION {x[j].tags[k] : j \in {i \in DOMAIN x : k \in DOMAIN x[i].tags}}

\* collapse_nodes, lines 743-744: per label the nodes of all neurons, mapped
\* through the collapse map (the list, as the set of its members)
TagsPair == [k \in AllLabels |-> {Get(collapse_into, a) : a \in Tagged(k)}]

\* collapse_nodes2, line 889: the tags of the weak union as they are (per
\* label the nodes of all neurons)
TagsAsym == [k \in AllLabels |-> Tagged(k)]

\* pymaid.graph.nx2neuron(tree, ...): the root is a node of the library's
\* choosing; then the tags and the connectors
ProvenancePair ==
    /\ mode = "pairwise"
    /\ pc = "repaired"
    /\ \E root \in Nodes(tree) : union' = NodeTable(tree, root)
    /\ tags' = TagsPair
    /\ connectors' = Connectors
    /\ Goto("done")
    /\ UNCHANGED <<close_pairs, collapse_into, new_edges, E, G, tree, columns>>

\* the rows of union whose parent comes from another skeleton
NewEdgesOf(table) ==
    {row \in table :
        /\ row.parent_id # NoParent
        /\ RowOf(row.treenode_id).skeleton_id # RowOf(row.parent_id).skeleton_id}

\* union.reroot(base_neuron.root[0]) and the extraction of the new edges
ProvenanceAsym ==
    /\ mode = "asym"
    /\ pc = "repaired"
    /\ LET root == RootOf(x[base_neuron]) IN
       IF root \notin Nodes(tree) THEN Fail("reroot_error")
       ELSE /\ union' = NodeTable(tree, root)
            /\ tags' = TagsAsym
            /\ connectors' = Connectors
            /\ new_edges' = NewEdgesOf(NodeTable(tree, root))
            /\ Goto("done")
            /\ UNCHANGED <<close_pairs, collapse_into, E, G, tree, columns>>

Next ==
    \/ FixCollisions
    \/ ValidatePair \/ ValidateAsym \/ WeakUnion
    \/ CollapsePair \/ CollapseAsym
    \/ ReconcilePair \/ ReconcileAsym
    \/ RepairPair \/ RepairAsym
    \/ ProvenancePair \/ ProvenanceAsym

Spec == Init /\ [][Next]_vars

\* the calls on neurons with connectors or tags
SpecMarked == InitMarked /\ [][Next]_vars

\* --------------------------------------------------- merge_neuron, a batch
\* the elements of seq at the positions in S, in order
Pick(seq, S) ==
    LET idx == SelectSeq([k \in 1..Len(seq) |-> k], LAMBDA k : k \in S)
    IN  [r \in DOMAIN idx |-> seq[idx[r]]]

\* the sequences that list every element of S once
Orders(S) ==
    {s \in [1..Cardinality(S) -> S] : \A a, b \in DOMAIN s : s[a] = s[b] => a = b}

\* a skeleton n of the batch with the fragments find_fragments returns for it
\* (lines 333-348), which overlap it or not
Items(maxn) ==
    {[n |-> xs[Len(xs)], ol |-> SubSeq(xs, 1, Len(xs) - 1)] :
        xs \in UNION {UNION {UNION {UNION {
                {AsymInput(n, o, p, c, nB) : nB \in 1..(o[n] - 1)} :
                    c \in [1..n -> {0, MaxCoord}]} :
                    p \in Parents(n, o)} :
                    o \in Owners(n)} :
                    n \in 2..maxn}}
    \cup
    {[n |-> Neuron(1, Rows(n, p, [k \in 1..n |-> 0], 1..n)), ol |-> << >>] :
        n \in 1..2, p \in {[k \in 1..2 |-> k - 1]}}

\* a merge_neuron call at line 350: the batch x with its overlapping
\* fragments, nothing confirmed and nothing sent to the target yet
InitBatch ==
    /\ \/ \E it \in Items(MaxNodesBatch) : batch = <<it>>
       \/ \E it1, it2 \in Items(MaxNodesSibling) : batch = <<it1, it2>>
    /\ Len(batch) <= MaxBatch
    /\ min_upload_nodes \in 1..MaxUploadNodes
    /\ mode = "asym"
    /\ x = << >>
    /\ limit = 1
    /\ priority_nodes = {}
    /\ base_neuron = None
    /\ pc = "confirm"
    /\ err = "none"
    /\ close_pairs = << >> /\ collapse_into = << >> /\ new_edges = << >>
    /\ E = {} /\ G = {} /\ tree = {} /\ union = {}
    /\ connectors = << >> /\ tags = << >> /\ columns = << >>
    /\ ix = 0
    /\ overlap_cnf = << >> /\ base_neurons = << >>
    /\ frags = << >> /\ to_stitch = {} /\ cond1b = << >> /\ cond2b = << >>
    /\ to_gen = << >> /\ tn_map = << >> /\ calls = << >> /\ ret = "running"
    /\ NoRadii
    /\ NoSynapses

\* what a step of merge_neuron outside the merge of one skeleton leaves alone
pipelineVars ==
    <<mode, x, limit, priority_nodes, base_neuron, close_pairs, collapse_into,
      new_edges, E, G, tree, union, connectors, tags, columns>>

replayVars == <<frags, to_stitch, cond1b, cond2b, to_gen, tn_map>>

\* a call sent to the target instance and whether it answered without error
Call(op, nodes, winner, looser, edge, ok) ==
    [op |-> op, of |-> ix, nodes |-> nodes, winner |-> winner,
     looser |-> looser, edge |-> edge, ok |-> ok]

\* the user ends a dialog of _confirm_overlap (lines 1044-1045, 1062-1063,
\* 1093-1094): the exception leaves merge_neuron
Abort ==
    /\ pc' = "aborted"
    /\ ret' = "aborted"
    /\ UNCHANGED <<err, pipelineVars, replayVars, batch, ix, overlap_cnf,
                   base_neurons, calls, min_upload_nodes, radiiVars, synVars>>

\* a merge may start as soon as one skeleton is confirmed
SomeConfirmed == Len(overlap_cnf) >= 1

\* the skeletons are confirmed one after the other before any is merged
AllConfirmed == Len(overlap_cnf) = Len(batch)

\* lines 355-359: the dialogs of _confirm_overlap for the next skeleton: the
\* user keeps some of its fragments and names the base among them, or keeps
\* none and agrees to a plain upload, or aborts
Confirm ==
    /\ pc = "confirm"
    /\ Len(overlap_cnf) < Len(batch)
    /\ LET ol == batch[Len(overlap_cnf) + 1].ol IN
       \/ Abort
       \/ \E S \in SUBSET (1..Len(ol)) :
          \E bn \in 0..Cardinality(S) :
             /\ (bn = None) <=> (S = {})
             /\ overlap_cnf' = Append(overlap_cnf, Pick(ol, S))
             /\ base_neurons' = Append(base_neurons, bn)
             /\ UNCHANGED <<pc, ret, err, pipelineVars, replayVars, batch, ix,
                            calls, min_upload_nodes, radiiVars, synVars>>

\* line 362: the loop over the confirmed skeletons begins
Process ==
    /\ pc = "confirm"
    /\ AllConfirmed
    /\ pc' = "process"
    /\ ix' = 1
    /\ UNCHANGED <<ret, err, pipelineVars, replayVars, batch, overlap_cnf,
                   base_neurons, calls, min_upload_nodes, radiiVars, synVars>>

\* zip(x, overlap_cnf, base_neurons) ends with its shortest list
Zipped == IF Len(overlap_cnf) < Len(batch) THEN Len(overlap_cnf) ELSE Len(batch)

\* line 569: every skeleton is done
Return ==
    /\ pc = "process"
    /\ ix > Zipped
    /\ pc' = "returned"
    /\ ret' = "nothing"
    /\ UNCHANGED <<err, pipelineVars, replayVars, batch, ix, overlap_cnf,
                   base_neurons, calls, min_upload_nodes, radiiVars, synVars>>

\* lines 366-383: without overlapping fragments the skeleton is uploaded as
\* it is; an error response is returned to the caller
UploadOnly ==
    /\ pc = "process"
    /\ ix <= Zipped
    /\ overlap_cnf[ix] = << >>
    /\ \E ok \in BOOLEAN :
          /\ calls' = Append(calls, Call("upload", IdSet(batch[ix].n.nodes), 0, 0, <<0, 0>>, ok))
          /\ IF ok THEN ix' = ix + 1 /\ UNCHANGED <<pc, ret>>
             ELSE pc' = "returned" /\ ret' = "error" /\ UNCHANGED ix
    /\ UNCHANGED <<err, pipelineVars, replayVars, batch, overlap_cnf,
                   base_neurons, min_upload_nodes, radiiVars, synVars>>

\* lines 385-428: with overlapping fragments the skeleton and its fragments
\* go through collapse_nodes2, the base as confirmed
StartMerge ==
    /\ pc = "process"
    /\ ix <= Zipped
    /\ overlap_cnf[ix] # << >>
    /\ x' = overlap_cnf[ix] \o <<batch[ix].n>>
    /\ columns' = [j \in 1..(Len(overlap_cnf[ix]) + 1) |-> NodeColumns]
    /\ base_neuron' = base_neurons[ix]
    /\ pc' = "merge"
    /\ close_pairs' = << >> /\ collapse_into' = << >> /\ new_edges' = << >>
    /\ E' = {} /\ G' = {} /\ tree' = {} /\ union' = {}
    /\ connectors' = << >> /\ tags' = << >>
    /\ frags' = << >> /\ to_stitch' = {} /\ cond1b' = << >> /\ cond2b' = << >>
    /\ to_gen' = << >> /\ tn_map' = << >>
    /\ UNCHANGED <<mode, limit, priority_nodes, err, ret, batch, ix, overlap_cnf,
                   base_neurons, calls, min_upload_nodes, radiiVars, synVars>>

\* union.nodes.origin_skeletons == n.skeleton_id, != n.skeleton_id
new_nodes == {row.treenode_id : row \in union} \cap IdSet(A.nodes)

old_nodes == {row.treenode_id : row \in union} \ IdSet(A.nodes)

\* pymaid.break_fragments(pymaid.subset_neuron(union, new_nodes)): the
\* connected pieces of the union among the new nodes; one fragment without
\* nodes when there is no new node (lines 454-455)
Fragments ==
    IF new_nodes = {} THEN {{}}
    ELSE Components(new_nodes, {ed \in tree : ed.e \subseteq new_nodes})

\* lines 431-452: the fragments to upload (in the library's order) and the
\* new edges to make
Extract ==
    /\ pc = "done"
    /\ frags' \in Orders(Fragments)
    /\ to_stitch' = new_edges
    /\ cond1b' = [row \in new_edges |-> row.treenode_id \in old_nodes]
    /\ cond2b' = [row \in new_edges |-> row.parent_id \in old_nodes]
    /\ tn_map' = << >>
    /\ pc' = "upload"
    /\ UNCHANGED <<to_gen, ret, err, pipelineVars, batch, ix, overlap_cnf,
                   base_neurons, calls, min_upload_nodes, radiiVars, synVars>>

\* sum(lcond1) + sum(lcond2): how often the nodes of f are named by the new
\* edges that are left, as child and as parent
LinkCount(f) ==
    Cardinality(f \cap {row.treenode_id : row \in new_edges})
        + Cardinality(f \cap {row.parent_id : row \in new_edges})

\* lines 456-470, with min_upload_size = 0: a fragment without nodes, or one
\* that is no linker and has fewer than min_upload_nodes nodes
Skipped(f) ==
    \/ Cardinality(f) < 1
    \/ LinkCount(f) <= 1 /\ Cardinality(f) < min_upload_nodes

\* resp['node_id_map']: the identifier the target gives an uploaded node
NewId(id) == id + IdShift

\* a value of a condition column, False where the row has been dropped
Cond(c, row) == row \in DOMAIN c /\ c[row]

\* every new edge is made at once
ToGenAll(tm) == to_stitch

\* to_stitch.loc[(cond1a | cond1b) & (cond2a | cond2b)]: the new edges whose
\* two ends are existing or uploaded nodes and that have not been made yet
ToGen(tm) ==
    {row \in to_stitch :
        /\ row.treenode_id \in DOMAIN tm \/ Cond(cond1b, row)
        /\ row.parent_id \in DOMAIN tm \/ Cond(cond2b, row)}

\* lines 453-513: the next fragment is skipped or uploaded; an error response
\* is returned to the caller, otherwise the joins that are now possible are
\* lined up; after the last fragment the annotations and radii follow
Upload ==
    /\ pc = "upload"
    /\ IF frags = << >>
       THEN /\ pc' = "finish"
            /\ UNCHANGED <<frags, tn_map, to_gen, calls, ret>>
       ELSE LET f == Head(frags) IN
            /\ frags' = Tail(frags)
            /\ IF Skipped(f)
               THEN UNCHANGED <<pc, tn_map, to_gen, calls, ret>>
               ELSE \E ok \in BOOLEAN :
                    /\ calls' = Append(calls, Call("upload", f, 0, 0, <<0, 0>>, ok))
                    /\ IF ok
                       THEN LET tm == [id \in (DOMAIN tn_map) \cup f |->
                                          IF id \in f THEN NewId(id) ELSE tn_map[id]]
                            IN  /\ tn_map' = tm
                                /\ to_gen' \in Orders(ToGen(tm))
                                /\ pc' = "join"
                                /\ UNCHANGED ret
                       ELSE /\ pc' = "returned"
                            /\ ret' = "error"
                            /\ UNCHANGED <<tn_map, to_gen>>
    /\ UNCHANGED <<to_stitch, cond1b, cond2b, err, pipelineVars, batch, ix,
                   overlap_cnf, base_neurons, min_upload_nodes, radiiVars, synVars>>

\* the child end of every new edge wins
WinnerIsChild(node) == node.treenode_id

\* lines 517-521: the end of the new edge that stays on top in the join
Winner(node) ==
    IF node.treenode_id \in IdSet(x[base_neuron].nodes)
    THEN node.treenode_id ELSE node.parent_id

Looser(node) ==
    IF Winner(node) = node.treenode_id THEN node.parent_id ELSE node.treenode_id

Without(c, row) == [r \in (DOMAIN c) \ {row} |-> c[r]]

\* lines 516-552: the next join; after an error response the edge is kept
\* and the loop goes on, otherwise the edge is dropped from new_edges and from
\* the condition columns
Join ==
    /\ pc = "join"
    /\ IF to_gen = << >>
       THEN /\ pc' = "upload"
            /\ UNCHANGED <<to_gen, calls, new_edges, cond1b, cond2b>>
       ELSE LET node == Head(to_gen) IN
            /\ to_gen' = Tail(to_gen)
            /\ UNCHANGED pc
            /\ \E ok \in BOOLEAN :
               /\ calls' = Append(calls,
                                  Call("join", {}, Get(tn_map, Winner(node)),
                                       Get(tn_map, Looser(node)),
                                       <<node.treenode_id, node.parent_id>>, ok))
               /\ IF ok
                  THEN /\ new_edges' = new_edges \ {node}
                       /\ cond1b' = Without(cond1b, node)
                       /\ cond2b' = Without(cond2b, node)
                  ELSE UNCHANGED <<new_edges, cond1b, cond2b>>
    /\ UNCHANGED <<mode, x, limit, priority_nodes, base_neuron, close_pairs,
                   collapse_into, E, G, tree, union, connectors, tags, columns,
                   frags, to_stitch, tn_map, ret, err, batch, ix, overlap_cnf,
                   base_neurons, min_upload_nodes, radiiVars, synVars>>

\* lines 554-567: annotations and radii (the response is not looked at), then
\* the next skeleton
Finish ==
    /\ pc = "finish"
    /\ \E ok \in BOOLEAN :
          calls' = Append(calls, Call("update_radii", IdSet(BRows), 0, 0, <<0, 0>>, ok))
    /\ ix' = ix + 1
    /\ pc' = "process"
    /\ UNCHANGED <<ret, err, pipelineVars, replayVars, batch, overlap_cnf,
                   base_neurons, min_upload_nodes, radiiVars, synVars>>

NextBatch ==
    \/ Confirm \/ Process \/ Return \/ UploadOnly \/ StartMerge
    \/ FixCollisions \/ ValidateAsym \/ WeakUnion \/ CollapseAsym
    \/ ReconcileAsym \/ RepairAsym \/ ProvenanceAsym
    \/ Extract \/ Upload \/ Join \/ Finish

\* merge_neuron on a batch of skeletons
SpecBatch == InitBatch /\ [][NextBatch]_vars

\* ------------------------------------------------------ update_node_radii
\* the radius column: no radius (-1, 0) or a radius in nanometres
Radii == {-1, 0, SmallRadius, LargeRadius}

\* node tables of up to maxn nodes with their positions and radii
RadiusTables(maxn) ==
    UNION {{[r \in 1..n |-> [treenode_id |-> r, x |-> c[r], radius |-> rad[r]]] :
                c \in [1..n -> Coords], rad \in [1..n -> Radii]} : n \in 1..maxn}

\* a call of update_node_radii(source, target, remote_instance, limit,
\* skip_existing)
InitRadii ==
    /\ \E src \in RadiusTables(MaxNodesRadii) :
       \E tgt \in RadiusTables(MaxNodesRadii) :
       \E ok \in BOOLEAN :
          /\ source = [is_neuron |-> TRUE, nodes |-> src]
          /\ target = [is_neuron |-> ok \/ Len(tgt) > 1, nodes |-> tgt]
    /\ skip_existing \in BOOLEAN
    /\ limit \in 1..MaxLimit
    /\ new_radii = << >>
    /\ pc = "radii"
    /\ err = "none"
    /\ mode = "asym"
    /\ x = << >>
    /\ priority_nodes = {}
    /\ base_neuron = None
    /\ close_pairs = << >> /\ collapse_into = << >> /\ new_edges = << >>
    /\ E = {} /\ G = {} /\ tree = {} /\ union = {}
    /\ connectors = << >> /\ tags = << >> /\ columns = << >>
    /\ NoMerge
    /\ NoSynapses

\* every row is kept
AllRows(rows) == rows

\* nodes[nodes.radius <= 0]
WithoutRadius(rows) == SelectSeq(rows, LAMBDA row : row.radius <= 0)

\* source.nodes.iloc[nn_ix].radius
RadiusOf(id) ==
    source.nodes[CHOOSE r \in DOMAIN source.nodes :
                    source.nodes[r].treenode_id = id].radius

\* dict(zip(tn_ids, new_radii)): every queried node with a source node within
\* the limit, with the radius of a nearest source node
RadiiUpdates(rows) ==
    LET hit == {r \in DOMAIN rows : Nearest(source.nodes, rows[r].x) # {}}
        ids == {rows[r].treenode_id : r \in hit}
    IN  {f \in [ids -> Radii] :
            \A r \in hit :
                \E s \in Nearest(source.nodes, rows[r].x) :
                    f[rows[r].treenode_id] = RadiusOf(s)}

\* lines 933-960: the type checks, the nodes to update, their nearest source
\* nodes and the update sent to the target instance
UpdateNodeRadii ==
    /\ pc = "radii"
    /\ IF ~source.is_neuron \/ ~target.is_neuron THEN Fail("type_error")
       ELSE /\ LET nodes == IF skip_existing THEN WithoutRadius(target.nodes)
                            ELSE target.nodes
               IN  new_radii' \in RadiiUpdates(nodes)
            /\ pc' = "radii_sent"
            /\ UNCHANGED <<mode, x, limit, priority_nodes, base_neuron, err,
                           close_pairs, collapse_into, new_edges, E, G, tree, union,
                           connectors, tags, columns, mergeVars, synVars,
                           source, target, skip_existing>>

NextRadii == UpdateNodeRadii

\* update_node_radii on a source and a target skeleton
SpecRadii == InitRadii /\ [][NextRadii]_vars

\* ---------------------------------------------------- get_neuron_synapses
Segments == 1..2

\* where a synapse site may lie: at the neuron or out of its reach
Sites == {0, FarSite}

\* the rows get_segment_synapses returns: a link from a site in one segment
\* to a site in another
SynRows ==
    [segmentid_pre : Segments, segmentid_post : Segments, pre_x : Sites, post_x : Sites]

\* two links between the same segments closer than dupl_thresh (on the grid:
\* at the same site), which drop_duplicates would merge; sites[r] is the site
\* of rows[r] the tree is built on
Duplicates(rows, sites) ==
    \E a, b \in DOMAIN rows :
        /\ a < b
        /\ rows[a].segmentid_pre = rows[b].segmentid_pre
        /\ rows[a].segmentid_post = rows[b].segmentid_post
        /\ sites[a] = sites[b]

\* a call of get_neuron_synapses(x) at the loop of line 193, for one neuron x made of
\* segment 1, on a synapse table in which drop_duplicates finds nothing to
\* merge
InitSynapses ==
    /\ \E n \in 0..MaxSynapses : syn \in [1..n -> SynRows]
    /\ ~Duplicates(syn, [r \in DOMAIN syn |-> syn[r].pre_x])
    /\ ~Duplicates(syn, [r \in DOMAIN syn |-> syn[r].post_x])
    /\ \E n \in 1..2 :
          x = [this_seg |-> {1}, nodes |-> [r \in 1..n |-> [node_id |-> r, x |-> r - 1]]]
    /\ this_pre = << >>
    /\ this_post = << >>
    /\ connectors = << >>
    /\ pc = "synapses"
    /\ err = "none"
    /\ mode = "asym"
    /\ limit = 1
    /\ priority_nodes = {}
    /\ base_neuron = None
    /\ close_pairs = << >> /\ collapse_into = << >> /\ new_edges = << >>
    /\ E = {} /\ G = {} /\ tree = {} /\ union = {}
    /\ tags = << >> /\ columns = << >>
    /\ NoMerge
    /\ NoRadii

synFrame ==
    <<mode, limit, priority_nodes, base_neuron, err, close_pairs, collapse_into,
      new_edges, E, G, tree, union, tags, columns, mergeVars, radiiVars, x, syn>>

\* lines 197-199: the links that leave and that enter the segments of x
SelectSynapses ==
    /\ pc = "synapses"
    /\ this_pre' = SelectSeq(syn, LAMBDA row : row.segmentid_pre \in x.this_seg)
    /\ this_post' = SelectSeq(syn, LAMBDA row : row.segmentid_post \in x.this_seg)
    /\ pc' = "selected"
    /\ UNCHANGED <<connectors, synFrame>>

\* connectors.loc[:this_pre.shape[0], 'type'] = 'pre': a slice by label of
\* the index 0, 1, 2, ..., both ends included; label is the label of a row
TypeOf(label, p) == IF label <= p THEN "pre" ELSE "post"

\* lines 252-257: the presynaptic sites on top of the postsynaptic ones, all
\* typed 'post', then the slice typed 'pre'
TypeSynapses ==
    /\ pc = "selected"
    /\ LET p == Len(this_pre)
           stacked == [r \in DOMAIN this_pre |-> this_pre[r].pre_x]
                        \o [r \in DOMAIN this_post |-> this_post[r].post_x]
       IN  connectors' = [r \in DOMAIN stacked |->
                            [x |-> stacked[r], type |-> TypeOf(r - 1, p)]]
    /\ pc' = "typed"
    /\ UNCHANGED <<this_pre, this_post, synFrame>>

\* tree.query(..., distance_upper_bound=dist_thresh) for the site q: the
\* nodes of x nearest to it and within the threshold
NearNodes(q) ==
    {r \in DOMAIN x.nodes :
        /\ D2(x.nodes[r].x, q) < DistThresh * DistThresh
        /\ \A s \in DOMAIN x.nodes : D2(x.nodes[r].x, q) <= D2(x.nodes[s].x, q)}

\* lines 259-275: the sites out of reach are dropped, the others get their
\* node and a running connector id
AttachSynapses ==
    /\ pc = "typed"
    /\ LET kept == SelectSeq(connectors, LAMBDA row : NearNodes(row.x) # {})
       IN  \E node \in [DOMAIN kept -> DOMAIN x.nodes] :
              /\ \A r \in DOMAIN kept : node[r] \in NearNodes(kept[r].x)
              /\ connectors' = [r \in DOMAIN kept |->
                                  [x |-> kept[r].x, type |-> kept[r].type,
                                   node_id |-> x.nodes[node[r]].node_id,
                                   connector_id |-> r - 1]]
    /\ pc' = "attached"
    /\ UNCHANGED <<this_pre, this_post, synFrame>>

NextSynapses == SelectSynapses \/ TypeSynapses \/ AttachSynapses

\* get_neuron_synapses on one neuron
SpecSynapses == InitSynapses /\ [][NextSynapses]_vars

\* ------------------------------------------------------------- the claims
\* what a call returns is the state at pc = "done"
Returned == pc = "done"

Keys == DOMAIN collapse_into

UnionIds == {row.treenode_id : row \in union}

UnionRoots == {row \in union : row.parent_id = NoParent}

UnionPairs == {{row.treenode_id, row.parent_id} : row \in union \ UnionRoots}

AsGraph(pairs) == {[e |-> p, weight |-> 0] : p \in pairs}

LimitSquared == (limit * NmPerMicron) * (limit * NmPerMicron)

\* the nodes a node may collapse into: of another fragment (pairwise), of
\* the acceptors (asymmetric)
Others(id) ==
    IF mode = "asym" THEN IdSet(BRows)
    ELSE {m \in AllIds : RowOf(m).skeleton_id # RowOf(id).skeleton_id}

\* C1: every returned skeleton is a rooted tree: one row per node, exactly
\* one row without a parent, as many edges as nodes minus one, connected,
\* and its edges are those of the spanning tree it was made from.
C1_OutputIsRootedTree ==
    Returned =>
        /\ Cardinality(union) = Cardinality(UnionIds)
        /\ Cardinality(UnionRoots) = 1
        /\ \A row \in union \ UnionRoots : row.parent_id \in UnionIds
        /\ Cardinality(union \ UnionRoots) = Cardinality(UnionIds) - 1
        /\ Cardinality(UnionPairs) = Cardinality(UnionIds) - 1
        /\ \A v \in UnionIds : Reach({v}, AsGraph(UnionPairs)) = UnionIds
        /\ UnionPairs = Pairs(tree)

\* a returned merge in which nodes collapsed and the spanning tree cut a cycle
C1_Witness == Returned /\ Keys # {} /\ \E ed \in G : ed \notin tree

C3_NodeCount ==
    Returned =>
        /\ Cardinality(UnionIds) + Cardinality(Keys) = Len(union_simple)
        /\ (AllIds \ Keys) \subseteq UnionIds

\* C4: every entry a -> b of a returned collapse map joins two nodes at most
\* limit * 1000 nm apart, and every key has a node of the other side within
\* that distance.
C4_WithinLimit ==
    Returned =>
        \A a \in Keys :
            /\ D2(PosOf(a), PosOf(collapse_into[a])) <= LimitSquared
            /\ \E m \in Others(a) : D2(PosOf(a), PosOf(m)) <= LimitSquared

\* a returned merge with a collapsed node and with a node that stayed because
\* nothing of the other side is within the limit
C4_Witness ==
    /\ Returned
    /\ Keys # {}
    /\ \E id \in AllIds \ Keys :
          /\ Others(id) # {}
          /\ \A m \in Others(id) : D2(PosOf(id), PosOf(m)) > LimitSquared

\* C5: in asymmetric mode every key of the map is a donor node, every value
\* an acceptor node, and every acceptor node is a node of the output.
C5_DonorIntoAcceptor ==
    (mode = "asym" /\ Returned) =>
        /\ Keys \subseteq IdSet(A.nodes)
        /\ \A k \in Keys : collapse_into[k] \in IdSet(BRows)
        /\ IdSet(BRows) \subseteq UnionIds

AcceptorPairs ==
    {{BRows[r].treenode_id, BRows[r].parent_id} :
        r \in {r \in DOMAIN BRows : BRows[r].parent_id # NoParent}}

\* C6: in asymmetric mode every parent-child edge of every acceptor is an
\* edge of the returned tree, in one direction or the other.
C6_AcceptorEdgesKept ==
    (mode = "asym" /\ Returned) => AcceptorPairs \subseteq UnionPairs

\* an asymmetric merge where donor nodes collapsed onto the acceptors and the
\* spanning tree had to cut a cycle
C6_Witness ==
    /\ mode = "asym"
    /\ Returned
    /\ Keys # {}
    /\ AcceptorPairs # {}
    /\ \E ed \in G : ed \notin tree

\* the edges of the input fragments whose two endpoints both survive
ExistingPairs ==
    {{union_simple[r].treenode_id, union_simple[r].parent_id} :
        r \in {r \in DOMAIN union_simple :
                /\ union_simple[r].parent_id # NoParent
                /\ union_simple[r].treenode_id \notin Keys
                /\ union_simple[r].parent_id \notin Keys}}

SimpleCycles(g) ==
    {c \in SUBSET g :
        /\ Cardinality(c) >= 3
        /\ Cardinality(Components(Nodes(c), c)) = 1
        /\ \A v \in Nodes(c) : Cardinality({ed \in c : v \in ed.e}) = 2}

\* the spanning tree t cuts no edge of an input fragment whose endpoints both
\* survive while a cycle through that edge holds a new edge
CutsOnlyNew(t) ==
    \A ed \in G :
        (ed.e \in ExistingPairs /\ ed \notin t) =>
            ~\E c \in SimpleCycles(G) :
                ed \in c /\ \E nw \in c : nw.e \notin ExistingPairs

\* C7: in pairwise mode the spanning tree never removes an edge of an input
\* fragment whose endpoints both survive while a cycle through it holds a
\* new edge (one made by collapsing, or a priority-to-priority edge).  Ties
\* between equal weights are read in the claim's favour: it is enough that
\* one spanning tree of least weight cuts only new edges.
C7_OnlyNewEdgesCut ==
    (mode = "pairwise" /\ pc \in {"repaired", "done"}) =>
        \E t \in MinimumSpanningTrees(G) : CutsOnlyNew(t)

Survivors == AllIds \ Keys

CollapsedGraph == Undirected(NoSelfLoops({Rewrite(ed, 0) : ed \in GraphEdges}))

ManyComponents == Cardinality(Components(Survivors, CollapsedGraph)) > 1

\* C9: in asymmetric mode, when collapsing leaves several components (a lone
\* unmatched donor node is one), the call does not fail and returns one tree
\* holding the nodes of every component.
C9_ForcedStitch ==
    (mode = "asym" /\ base_neuron # None /\ ManyComponents) =>
        /\ Returned =>
              /\ Survivors \subseteq UnionIds
              /\ Cardinality(Components(UnionIds, AsGraph(UnionPairs))) = 1
        /\ pc = "failed" => err \notin {"empty_edge_list", "reroot_error"}

PriorityOf(id) == id \in priority_nodes

\* C10 as stated: of every close pair the non-priority node (the first when
\* neither has priority) is mapped to its partner, and no priority node is a
\* key.
C10_PairRule ==
    mode = "pairwise" =>
        /\ \A i \in DOMAIN close_pairs :
              LET p == close_pairs[i] IN
              /\ (~PriorityOf(p.n1))
                    => (p.n1 \in Keys /\ collapse_into[p.n1] = p.n2)
              /\ (PriorityOf(p.n1) /\ ~PriorityOf(p.n2))
                    => (p.n2 \in Keys /\ collapse_into[p.n2] = p.n1)
        /\ Keys \cap priority_nodes = {}

\* the node of a close pair that collapses, None when both have priority
Collapsing(p) ==
    IF ~PriorityOf(p.n1) THEN p.n1 ELSE IF ~PriorityOf(p.n2) THEN p.n2 ELSE None

Partner(p) == IF ~PriorityOf(p.n1) THEN p.n2 ELSE p.n1

\* C10 amended: of every close pair the non-priority node (the first when
\* neither has priority) is a key, mapped to its partner in the last close
\* pair that collapses it, and no priority node is a key.
C10_LastPairWins ==
    mode = "pairwise" =>
        /\ \A i \in DOMAIN close_pairs :
              LET p == close_pairs[i] IN
              Collapsing(p) # None =>
                  /\ Collapsing(p) \in Keys
                  /\ (\A j \in DOMAIN close_pairs :
                        j > i => Collapsing(close_pairs[j]) # Collapsing(p))
                     => collapse_into[Collapsing(p)] = Partner(p)
        /\ Keys \cap priority_nodes = {}

\* a returned pairwise merge with a pair without priority, a pair with one
\* priority node, and a node that two close pairs collapse
C10_Witness ==
    /\ mode = "pairwise"
    /\ Returned
    /\ \E i, j \in DOMAIN close_pairs :
          /\ i < j
          /\ Collapsing(close_pairs[i]) # None
          /\ Collapsing(close_pairs[i]) = Collapsing(close_pairs[j])
    /\ \E i \in DOMAIN close_pairs :
          PriorityOf(close_pairs[i].n1) /\ ~PriorityOf(close_pairs[i].n2)
    /\ \E i \in DOMAIN close_pairs :
          ~PriorityOf(close_pairs[i].n1) /\ ~PriorityOf(close_pairs[i].n2)

\* the fragment of a node
FragmentOf(id) == RowOf(id).skeleton_id

\* the entries of the new-edge list of collapse_nodes that join a and b
EdgesBetween(a, b) ==
    {k \in DOMAIN new_edges : {new_edges[k][1], new_edges[k][2]} = {a, b}}

\* C11 as stated: two priority nodes of different fragments within the limit
\* of each other are no keys, exactly one entry of the returned new-edge list
\* joins them, and the pair is an edge of the graph the tree is built from.
C11_PriorityEdge ==
    (mode = "pairwise" /\ Returned) =>
        \A a, b \in priority_nodes \cap AllIds :
            (FragmentOf(a) # FragmentOf(b) /\ D2(PosOf(a), PosOf(b)) <= LimitSquared) =>
                /\ a \notin Keys /\ b \notin Keys
                /\ Cardinality(EdgesBetween(a, b)) = 1
                /\ {a, b} \in Pairs(G)

\* C11 amended: two priority nodes that form a close pair (the node of the
\* first fragment is the nearest neighbour found for the node of the second)
\* are no keys, exactly one entry of the returned new-edge list joins them,
\* and the pair is an edge of the graph the tree is built from.
C11_ClosePairEdge ==
    (mode = "pairwise" /\ Returned) =>
        \A i \in DOMAIN close_pairs :
            LET p == close_pairs[i] IN
            (PriorityOf(p.n1) /\ PriorityOf(p.n2)) =>
                /\ p.n1 \notin Keys /\ p.n2 \notin Keys
                /\ Cardinality(EdgesBetween(p.n1, p.n2)) = 1
                /\ {p.n1, p.n2} \in Pairs(G)

\* a returned pairwise merge with a close pair of two priority nodes next to
\* a close pair that collapsed
C11_Witness ==
    /\ mode = "pairwise"
    /\ Returned
    /\ Keys # {}
    /\ \E i \in DOMAIN close_pairs :
          PriorityOf(close_pairs[i].n1) /\ PriorityOf(close_pairs[i].n2)

\* the nodes with exactly one edge in the weak union
IsEndpoint(id) ==
    Cardinality({ed \in GraphEdges : id \in {ed.source, ed.target}}) = 1

\* the input is two chains of three nodes of which exactly one pair of
\* nodes, an endpoint of each, is within the limit
TwoChains ==
    /\ Len(x) = 2
    /\ \A j \in 1..2 : Len(x[j].nodes) = 3 /\ x[j].is_neuron
    /\ Cardinality(AllIds) = 6
    /\ x[1].skeleton_id # x[2].skeleton_id
    /\ LET near == {ab \in IdSet(x[1].nodes) \X IdSet(x[2].nodes) :
                        D2(PosOf(ab[1]), PosOf(ab[2])) <= LimitSquared}
       IN  /\ Cardinality(near) = 1
           /\ \A ab \in near : IsEndpoint(ab[1]) /\ IsEndpoint(ab[2])

\* the number of entries of the returned new-edge list: a list in pairwise
\* mode, the rows of a table in asymmetric mode
NewEdgeCount ==
    IF mode = "pairwise" THEN Len(new_edges) ELSE Cardinality(new_edges)

\* C12: two chains of three nodes that touch at one endpoint each merge, by
\* either entry point (pairwise without priority nodes, asymmetric with a
\* base), into a tree of 5 nodes and 4 edges with 1 entry in the new-edge
\* list.
C12_ScenarioA ==
    (TwoChains /\ priority_nodes = {} /\ (mode = "asym" => base_neuron # None)) =>
        /\ pc # "failed"
        /\ Returned =>
              /\ Cardinality(UnionIds) = 5
              /\ Cardinality(UnionPairs) = 4
              /\ NewEdgeCount = 1

\* the stages in which no spatial index has been built or queried yet
BeforeGeometry == {"start", "validated"}

DuplicateErrors == {"duplicate_skeleton_ids", "duplicate_node_ids"}

\* two input skeletons share a skeleton id
SharedSkid == \E i, j \in DOMAIN x : i # j /\ x[i].skeleton_id = x[j].skeleton_id

\* a node id occurs in more than one input fragment
SharedNode ==
    \E i, j \in DOMAIN x : i # j /\ IdSet(x[i].nodes) \cap IdSet(x[j].nodes) # {}

\* C13: a call of collapse_nodes or collapse_nodes2 (any stage but that of
\* merge_neuron before its call) on an input with a duplicate skeleton id or
\* node id fails with the duplicate-identifier error, and no spatial index is
\* built or queried before: the call never gets past the weak union.
C13_DuplicatesFailFirst ==
    /\ []((pc # "merge" /\ (SharedSkid \/ SharedNode)) =>
            /\ pc \in BeforeGeometry \cup {"failed"}
            /\ pc = "failed" => err \in DuplicateErrors
            /\ close_pairs = << >> /\ collapse_into = << >>)
    /\ [][(pc = "start" /\ SharedSkid)
            => (pc' = "failed" /\ err' = "duplicate_skeleton_ids")]_vars
    /\ [][(pc = "validated" /\ SharedNode)
            => (pc' = "failed" /\ err' = "duplicate_node_ids")]_vars

\* a call that failed on a node id shared by two fragments
C13_Witness ==
    /\ pc = "failed"
    /\ err = "duplicate_node_ids"
    /\ SharedNode

\* the positions and the shape of the skeleton to merge, whatever its ids
ShapeOfA ==
    [r \in DOMAIN A.nodes |->
        [x |-> A.nodes[r].x,
         parent |-> IF A.nodes[r].parent_id = NoParent THEN 0
                    ELSE CHOOSE s \in DOMAIN A.nodes :
                            A.nodes[s].treenode_id = A.nodes[r].parent_id]]

Reconciled == pc \in {"reconciled", "repaired", "done"}

PairOf(ed) == {ed.source, ed.target}

\* C16: after the edge reconciliation in asymmetric mode every unordered pair
\* of nodes carries at most one edge, every pair of the rewritten edge list
\* carries one, and a pair with an existing copy (is_new = 0) among its rows
\* keeps an existing copy.
C16_ExistingCopyKept ==
    (mode = "asym" /\ Reconciled) =>
        /\ \A e1, e2 \in G : e1.e = e2.e => e1 = e2
        /\ Pairs(G) = {PairOf(ed) : ed \in E}
        /\ \A ed \in E : ed.weight = 0 => [e |-> PairOf(ed), weight |-> 0] \in G

\* a returned asymmetric merge whose rewritten edge list held an existing and
\* a new copy of the same pair
C16_Witness ==
    /\ mode = "asym"
    /\ Returned
    /\ \E e1, e2 \in E : PairOf(e1) = PairOf(e2) /\ e1.weight = 0 /\ e2.weight = 1

\* the rows of the output marker table with the marker id cid
RowsOf(cid) == {r \in DOMAIN connectors : connectors[r].connector_id = cid}

\* the nodes a marker is attached to in the inputs
AttachedTo(cid) ==
    {AllConnectors[r].treenode_id :
        r \in {s \in DOMAIN AllConnectors : AllConnectors[s].connector_id = cid}}

\* C17: in a returned merge every marker id of the inputs occurs exactly once
\* in the output marker table, and every output marker is attached to a node
\* of the output skeleton, the image under the collapse map of a node it was
\* attached to.
C17_MarkersKept ==
    Returned =>
        /\ \A r \in DOMAIN AllConnectors :
              Cardinality(RowsOf(AllConnectors[r].connector_id)) = 1
        /\ \A r \in DOMAIN connectors :
              /\ connectors[r].treenode_id \in UnionIds
              /\ \E a \in AttachedTo(connectors[r].connector_id) :
                    connectors[r].treenode_id = Get(collapse_into, a)

\* the image of a node under the collapse map
ImageOf(a) == IF a \in Keys THEN collapse_into[a] ELSE a

\* C18: in a returned merge, in both modes, the output tag map holds for
\* every label of the inputs the nodes that carry it in any input, each
\* replaced by its image under the collapse map, and no tag refers to a key
\* of the collapse map.
C18_TagsRemapped ==
    Returned =>
        /\ DOMAIN tags = AllLabels
        /\ \A k \in DOMAIN tags :
              /\ tags[k] = {ImageOf(a) : a \in Tagged(k)}
              /\ tags[k] \cap Keys = {}

\* the base skeleton: the one given, the first input when none is given
BaseIndex == IF base_neuron = None THEN 1 ELSE base_neuron

\* the root of the base skeleton before the merge
BaseRoot == RootOf(x[BaseIndex])

\* C19: the root of a returned skeleton is the root the base skeleton had
\* before the merge, in both modes.  In pairwise mode the root is the graph
\* library's choice among the nodes of the tree; the choice is read in the
\* claim's favour: it is enough that the base root is a node of the tree,
\* so that it can be the root.
C19_RootIsBaseRoot ==
    /\ (mode = "asym" /\ Returned) =>
            {row.treenode_id : row \in UnionRoots} = {BaseRoot}
    /\ (mode = "pairwise" /\ pc \in {"repaired", "done"}) =>
            BaseRoot \in Nodes(tree)

\* the failures that come from the base skeleton
BaseErrors == {"attribute_error", "reroot_error"}

\* C20: a call without a base skeleton uses the first input as base and
\* completes: it does not fail for want of a base, in either mode, and what
\* collapse_nodes2 returns is rooted at the root of the first input.
C20_DefaultBase ==
    base_neuron = None =>
        /\ pc = "failed" => err \notin BaseErrors
        /\ (mode = "asym" /\ Returned) =>
                {row.treenode_id : row \in UnionRoots} = {RootOf(x[1])}

\* the parent-child edges of the input fragments
InputPairs ==
    {{union_simple[r].treenode_id, union_simple[r].parent_id} :
        r \in {r \in DOMAIN union_simple : union_simple[r].parent_id # NoParent}}

\* the edges named by the new-edge table of collapse_nodes2
ListedPairs == {{row.treenode_id, row.parent_id} : row \in new_edges}

\* C21: in asymmetric mode the returned new-edge table names exactly the
\* edges of the output tree that are no edge of an input fragment: no listed
\* edge is an input edge, and every output edge that is no input edge is
\* listed, an edge stitched between two pieces of the donor included.
C21_NewEdgesExact ==
    (mode = "asym" /\ Returned) =>
        /\ ListedPairs \cap InputPairs = {}
        /\ UnionPairs \ InputPairs \subseteq ListedPairs
        /\ ListedPairs \subseteq UnionPairs

\* C22: no step of a merge call changes an input skeleton: the skeleton
\* identifier, the node table, the marker table and the tag map of every input
\* and the columns of every node table stay as they were before the call,
\* whether the call returns or fails.
C22_InputsUnchanged ==
    [][x' = x /\ columns' = columns]_vars

\* the stages of the merge pipeline, each with the stage that follows it
StageSteps ==
    {<<"merge", "start">>, <<"start", "validated">>, <<"validated", "unioned">>,
     <<"unioned", "collapsed">>, <<"collapsed", "reconciled">>,
     <<"reconciled", "repaired">>, <<"repaired", "done">>}

ValidationErrors ==
    {"type_error", "too_few_neurons", "duplicate_skeleton_ids", "duplicate_node_ids"}

\* an input that the validation has to reject
WrongType == \E j \in DOMAIN x : ~x[j].is_neuron

TooFew == mode = "pairwise" /\ Len(x) < 2

Invalid == WrongType \/ TooFew \/ SharedSkid \/ SharedNode

\* nothing of the collapsed stage or of a later stage has been computed
NothingCollapsed ==
    /\ close_pairs = << >> /\ collapse_into = << >> /\ new_edges = << >>
    /\ E = {} /\ G = {} /\ tree = {} /\ union = {}

\* C23: the pipeline passes its stages in the order validated, weakly
\* unioned, collapsed, reconciled, repaired, provenanced, one at a time, and
\* may fail at any of them; a call on an invalid input (wrong type, fewer than
\* 2 fragments in pairwise mode, a shared skeleton or node id) fails with a
\* validation error, and every validation error is raised from a stage before
\* the collapsed one, with no nearest-neighbour query run and nothing
\* collapsed.
C23_StageOrder ==
    /\ [][pc' # pc => (pc' = "failed" \/ <<pc, pc'>> \in StageSteps)]_vars
    /\ [][(pc' = "failed" /\ pc # "failed" /\ err' \in ValidationErrors)
            => pc \in BeforeGeometry]_vars
    /\ [](err \in ValidationErrors => (pc = "failed" /\ NothingCollapsed))
    /\ []((pc # "merge" /\ Invalid) =>
            /\ pc \in BeforeGeometry \cup {"failed"}
            /\ pc = "failed" => err \in ValidationErrors)

\* a pairwise call on a single fragment that failed for want of a second
C23_Witness ==
    /\ pc = "failed"
    /\ err = "too_few_neurons"
    /\ TooFew

\* the call that a step sends to the target, after the step
Sent == calls'[Len(calls')]

Sends(ops) == Len(calls') = Len(calls) + 1 /\ Sent.op \in ops

\* C24: in merge_neuron an error response to an upload or to a join ends the
\* call at once with that response returned to the caller, no call is sent to
\* the target afterwards, and the uploads and joins made before (for earlier
\* skeletons of the batch too) stay made.
C24_ErrorsSurfaced ==
    /\ [][(Sends({"upload", "join"}) /\ ~Sent.ok)
            => (pc' = "returned" /\ ret' = "error")]_vars
    /\ [][pc = "returned" => calls' = calls]_vars
    /\ [][Len(calls') >= Len(calls) /\ SubSeq(calls', 1, Len(calls)) = calls]_vars

\* the skeletons of the batch for which a call has been sent to the target
Merged == {calls[k].of : k \in DOMAIN calls}

\* C25 as stated: when the user aborts the confirmation of a skeleton, the
\* skeletons confirmed before it are merged all the same: for each of them
\* the uploads and joins have been sent to the target.
C25_AbortSparesEarlier ==
    pc = "aborted" => \A j \in 1..Len(overlap_cnf) : j \in Merged

\* C25 amended: all skeletons are confirmed before any is merged, so an abort
\* during a confirmation ends the whole call before anything is sent to the
\* target: no skeleton of the batch is merged, the ones confirmed earlier
\* included, and no call is sent before every skeleton is confirmed.
C25_AbortEndsCall ==
    /\ [](pc = "aborted" => (calls = << >> /\ ret = "aborted" /\ Merged = {}))
    /\ [](calls # << >> => Len(overlap_cnf) = Len(batch))
    /\ [][pc = "aborted" => (pc' = "aborted" /\ calls' = calls)]_vars

\* the user aborts at the second skeleton after confirming the merge of the
\* first into its fragments
C25_Witness ==
    /\ pc = "aborted"
    /\ Len(batch) = 2
    /\ Len(overlap_cnf) = 1
    /\ overlap_cnf[1] # << >>

\* no call sent for the j-th skeleton of the batch was answered with an error
NoErrorFor(j) == \A k \in DOMAIN calls : calls[k].of = j => calls[k].ok

\* the nodes of the union that exist in the target: those that were there
\* before and those uploaded
InTarget == old_nodes \cup DOMAIN tn_map

\* the new edges for which a join was sent while merging the j-th skeleton
JoinedEdges(j) ==
    {calls[k].edge : k \in {k \in DOMAIN calls : calls[k].of = j /\ calls[k].op = "join"}}

\* C26: when merge_neuron has gone through all fragments of a skeleton with
\* overlapping fragments and no call was answered with an error, a join has
\* been sent for every new edge of the merge whose two ends exist in the
\* target, also when no fragment was uploaded (every node of the skeleton
\* collapsed, or every fragment was skipped).
C26_EveryNewEdgeJoined ==
    (pc = "finish" /\ NoErrorFor(ix)) =>
        \A row \in to_stitch :
            {row.treenode_id, row.parent_id} \subseteq InTarget
                => <<row.treenode_id, row.parent_id>> \in JoinedEdges(ix)

\* the identifiers the target has given to the uploaded nodes
Uploaded == {tn_map[id] : id \in DOMAIN tn_map}

\* C28: a join is only sent for a new edge whose two ends are nodes that
\* were in the target before the merge or nodes of a fragment whose upload
\* has returned; the identifiers passed are those of the target, never the
\* identifier of a node of the skeleton that has not been uploaded.
C28_JoinsOnlyKnownNodes ==
    [][Sends({"join"}) =>
          /\ {Sent.edge[1], Sent.edge[2]} \subseteq old_nodes \cup DOMAIN tn_map
          /\ {Sent.winner, Sent.looser} \subseteq old_nodes \cup Uploaded
          /\ {Sent.winner, Sent.looser} \cap IdSet(A.nodes) = {}]_vars

\* a join of an uploaded node has been sent while another new edge waits
\* for the upload of the fragment of its child
C28_Witness ==
    /\ pc = "join"
    /\ \E k \in DOMAIN calls :
          calls[k].of = ix /\ calls[k].op = "join" /\ calls[k].looser \in Uploaded
    /\ \E row \in to_stitch : row.treenode_id \notin InTarget

\* the nodes of the base neuron bn
BaseIds == IdSet(x[base_neuron].nodes)

\* C29: in every join merge_neuron sends, the winner is the child end of the
\* new edge if that is a node of the base neuron and the parent end
\* otherwise, each under the identifier it has in the target, and a node of
\* the base neuron is never the loser against a node of another skeleton.
C29_BaseNeverLoses ==
    [][Sends({"join"}) =>
          LET child  == Sent.edge[1]
              parent == Sent.edge[2]
              first  == IF child \in BaseIds THEN child ELSE parent
              second == IF child \in BaseIds THEN parent ELSE child
          IN  /\ Sent.winner = Get(tn_map, first)
              /\ Sent.looser = Get(tn_map, second)
              /\ ~(second \in BaseIds /\ first \notin BaseIds)]_vars

\* joins have been sent in which a node of the base neuron wins against a
\* node of another fragment, and in which a node of another fragment wins
\* against an uploaded node
C29_Witness ==
    /\ pc \in {"join", "upload", "finish"}
    /\ \E k \in DOMAIN calls :
          /\ calls[k].of = ix /\ calls[k].op = "join"
          /\ calls[k].winner \in BaseIds /\ calls[k].looser \notin BaseIds
    /\ \E k \in DOMAIN calls :
          /\ calls[k].of = ix /\ calls[k].op = "join"
          /\ calls[k].winner \in old_nodes \ BaseIds /\ calls[k].looser \in Uploaded

TargetRow(id) ==
    target.nodes[CHOOSE r \in DOMAIN target.nodes : target.nodes[r].treenode_id = id]

\* the rows of the source nearest to the position q
NearestRows(q) ==
    {s \in DOMAIN source.nodes :
        \A s2 \in DOMAIN source.nodes :
            D2(source.nodes[s].x, q) <= D2(source.nodes[s2].x, q)}

Typed(t) == {r \in DOMAIN connectors : connectors[r].type = t}

\* C30: in the connector table get_neuron_synapses builds for a neuron, the
\* rows that come from its p presynapse rows (the first p) are typed 'pre'
\* and the rows that come from its q postsynapse rows are typed 'post':
\* exactly p rows are typed 'pre' and exactly q rows 'post'.
C30_TypesMatchRows ==
    pc = "typed" =>
        /\ Len(connectors) = Len(this_pre) + Len(this_post)
        /\ Typed("pre") = 1..Len(this_pre)
        /\ Typed("post") = (Len(this_pre) + 1)..Len(connectors)
        /\ Cardinality(Typed("pre")) = Len(this_pre)
        /\ Cardinality(Typed("post")) = Len(this_post)
====
